---- MODULE Spec2Model ----
(***************************************************************************)
(* Model of tools/generate_favicons.py: the icon renderer (render_icon,    *)
(* draw_mushroom) and the linear script that writes the favicon set.       *)
(*                                                                         *)
(* An image is modelled by its display list: the ordered primitives that   *)
(* have been applied to its pixel buffer.  Image objects live in a heap    *)
(* (canvases); the names im, sh and the draw handles d, ds of render_icon  *)
(* are indices into it, so that rebinding a name (im = im.filter(...)) and *)
(* drawing through a handle are distinct things, as in the source.         *)
(***************************************************************************)
EXTENDS Integers, Sequences, FiniteSets

(***************************************************************************)
(* Script state: pc, the statement about to run; i, the index of the loop  *)
(* over the sizes; fs, the output directory (name -> file); log, the names *)
(* written by the current run, in order; run, the number of the run; dir0, *)
(* the names in the directory before the first run; aborted, an exception  *)
(* ended the run.                                                          *)
(* render_icon's locals: size, ring, im, d, sh, ds, outline_px, eyes;      *)
(* canvases is the heap of Image objects of the call, rpc its position.    *)
(***************************************************************************)
VARIABLES pc, i, fs, log, run, dir0, aborted,
          rpc, size, ring, canvases, im, d, sh, ds, outline_px, eyes

svars == <<pc, i, fs, log, run, dir0, aborted>>
rvars == <<rpc, size, ring, canvases, im, d, sh, ds, outline_px, eyes>>
vars  == <<pc, i, fs, log, run, dir0, aborted,
           rpc, size, ring, canvases, im, d, sh, ds, outline_px, eyes>>

(***************************************************************************)
(* Bounds of the model.                                                    *)
(***************************************************************************)
MaxSize == 64
MaxRuns == 2

(***************************************************************************)
(* Glyph geometry, in the 256-unit reference frame (s = size/256).         *)
(***************************************************************************)
Frame == 256
CapW == 184
CapH == 136
CapUp == 38
StemW == 72
StemH == 96
StemUp == 6
StemR == 18
EyeR == 4
EyeDx == 16
EyeDy == 22

Mid == Frame \div 2

CapBox  == <<Mid - CapW \div 2, Mid - CapUp - CapH \div 2,
             Mid + CapW \div 2, Mid - CapUp + CapH \div 2>>
StemBox == <<Mid - StemW \div 2, Mid - StemUp,
             Mid + StemW \div 2, Mid - StemUp + StemH>>
EyeBox(sign) == <<Mid + sign * EyeDx - EyeR, Mid + EyeDy - EyeR,
                  Mid + sign * EyeDx + EyeR, Mid + EyeDy + EyeR>>

\* The centre point (cx, cy) = (size/2, size/2) is (Mid, Mid) in the frame.
CentreInBox(b) == b[1] <= Mid /\ Mid <= b[3] /\ b[2] <= Mid /\ Mid <= b[4]

CentreInEllipse(b) ==
    LET rx2 == b[3] - b[1]
        ry2 == b[4] - b[2]
        dx2 == 2 * Mid - (b[1] + b[3])
        dy2 == 2 * Mid - (b[2] + b[4])
    IN  dx2 * dx2 * ry2 * ry2 + dy2 * dy2 * rx2 * rx2 <= rx2 * rx2 * ry2 * ry2

\* Distance, in frame units, from the centre point to the nearest edge of b.
EdgeDist(b) ==
    LET ds4 == {Mid - b[1], b[3] - Mid, Mid - b[2], b[4] - Mid}
    IN  CHOOSE m \in ds4 : \A x \in ds4 : m <= x

Max(a, b) == IF a >= b THEN a ELSE b

(***************************************************************************)
(* Palette: the alpha channel of each colour.                              *)
(***************************************************************************)
Alpha(colour) ==
    CASE colour = "FG"    -> 255
      [] colour = "OUTL"  -> 255
      [] colour = "EYES"  -> 255
      [] colour = "RINGC" -> 230
      [] colour = "CARD"  -> 255
      [] OTHER            -> 0

(***************************************************************************)
(* Display-list entries.  centre: whether the primitive paints the centre  *)
(* point of the canvas; layer: the display list of a composited image.     *)
(***************************************************************************)
Prim(kind, part, colour, fill, width, centre) ==
    [kind |-> kind, part |-> part, colour |-> colour, fill |-> fill,
     width |-> width, centre |-> centre, layer |-> <<>>]

Blur(radius) == Prim("blur", "", "", FALSE, radius, FALSE)
Composite(ops) ==
    [kind |-> "composite", part |-> "", colour |-> "", fill |-> FALSE,
     width |-> 0, centre |-> FALSE, layer |-> ops]

NewImage(w, h) == [w |-> w, h |-> h, ops |-> <<>>]

Filter(img, radius) == [img EXCEPT !.ops = Append(@, Blur(radius))]
Eval22(img) == [img EXCEPT !.ops = Append(@, Prim("eval", "", "", FALSE, 0, FALSE))]
Draw(cs, handle, ops) == [cs EXCEPT ![handle].ops = @ \o ops]

(***************************************************************************)
(* draw_mushroom(d, cx, cy, s, with_eyes, outline_px), with s = sz/256 and *)
(* cx = cy = sz/2: the primitives it issues, in order.  An outline stroke  *)
(* of w pixels reaches the centre point when the centre lies within w      *)
(* pixels of the shape's edge (the centre is on the cap's vertical axis).  *)
(***************************************************************************)
DrawMushroom(sz, with_eyes, outl) ==
    LET capEdge  == CapBox[4] - Mid
        capOutl  == IF outl # 0
                    THEN <<Prim("ellipse", "cap", "OUTL", FALSE, outl,
                                CentreInEllipse(CapBox) /\ capEdge * sz <= Frame * outl)>>
                    ELSE <<>>
        stemOutl == IF outl # 0
                    THEN <<Prim("rounded_rectangle", "stem", "OUTL", FALSE, outl,
                                CentreInBox(StemBox) /\ EdgeDist(StemBox) * sz <= Frame * outl)>>
                    ELSE <<>>
        eyeOps   == IF with_eyes
                    THEN <<Prim("ellipse", "eye", "EYES", TRUE, 0, CentreInEllipse(EyeBox(-1))),
                           Prim("ellipse", "eye", "EYES", TRUE, 0, CentreInEllipse(EyeBox(1)))>>
                    ELSE <<>>
    IN  capOutl
        \o <<Prim("ellipse", "cap", "FG", TRUE, 0, CentreInEllipse(CapBox))>>
        \o stemOutl
        \o <<Prim("rounded_rectangle", "stem", "FG", TRUE, (StemR * sz) \div Frame,
                  CentreInBox(StemBox))>>
        \o eyeOps

(***************************************************************************)
(* render_icon: the ring stroke and the size thresholds.                   *)
(***************************************************************************)
RingPad(n)   == (9 * n) \div 100
RingWidth(n) == Max(2, (8 * n) \div 100)
RingBlur(n)  == Max(0, (4 * n) \div 1000)
ShadowBlur(n) == Max(1, (3 * n) \div 100)

RingOp(n) == Prim("ellipse", "ring", "RINGC", FALSE, RingWidth(n),
                  2 * RingWidth(n) >= n - 2 * RingPad(n))

\* Variant: the 2px outline starting above 24 instead of at 24.
OutlinePxForMut(n) ==
    IF n <= 32 THEN (IF n > 24 THEN 2 ELSE 1)
    ELSE IF n < 48 THEN 1
    ELSE 0

OutlinePxFor(n) ==
    IF n <= 32 THEN (IF n >= 24 THEN 2 ELSE 1)
    ELSE IF n < 48 THEN 1
    ELSE 0

\* Variant: the 33-47 branch forgetting to switch the eyes off.
EyesForMut(n) ==
    IF n <= 32 THEN FALSE
    ELSE TRUE

EyesFor(n) ==
    IF n <= 32 THEN FALSE
    ELSE IF n < 48 THEN FALSE
    ELSE TRUE

(***************************************************************************)
(* render_icon(size, ring), statement by statement.                        *)
(***************************************************************************)
RNew ==
    /\ rpc = "new"
    /\ canvases' = <<NewImage(size, size)>>
    /\ im' = 1
    /\ d' = 1
    /\ rpc' = "ring"
    /\ UNCHANGED <<size, ring, sh, ds, outline_px, eyes>>
    /\ UNCHANGED svars

RRing ==
    /\ rpc = "ring"
    /\ IF ring
       THEN LET c1 == Draw(canvases, d, <<RingOp(size)>>)
            IN  /\ canvases' = Append(c1, Filter(c1[im], RingBlur(size)))
                /\ im' = Len(c1) + 1
       ELSE UNCHANGED <<canvases, im>>
    /\ rpc' = "shadow"
    /\ UNCHANGED <<size, ring, d, sh, ds, outline_px, eyes>>
    /\ UNCHANGED svars

RShadow ==
    /\ rpc = "shadow"
    /\ LET c1  == Append(canvases, NewImage(size, size))
           sh1 == Len(c1)
           c2  == Draw(c1, sh1, DrawMushroom(size, FALSE, 0))
           c3  == Append(c2, Filter(c2[sh1], ShadowBlur(size)))
           sh2 == Len(c3)
           c4  == Append(c3, Eval22(c3[sh2]))
           sh3 == Len(c4)
       IN  /\ canvases' = Draw(c4, im, <<Composite(c4[sh3].ops)>>)
           /\ ds' = sh1
           /\ sh' = sh3
    /\ rpc' = "detail"
    /\ UNCHANGED <<size, ring, im, d, outline_px, eyes>>
    /\ UNCHANGED svars

RDetail ==
    /\ rpc = "detail"
    /\ outline_px' = OutlinePxFor(size)
    /\ eyes' = EyesFor(size)
    /\ rpc' = "glyph"
    /\ UNCHANGED <<size, ring, canvases, im, d, sh, ds>>
    /\ UNCHANGED svars

RGlyph ==
    /\ rpc = "glyph"
    /\ canvases' = Draw(canvases, d, DrawMushroom(size, eyes, outline_px))
    /\ rpc' = "ret"
    /\ UNCHANGED <<size, ring, im, d, sh, ds, outline_px, eyes>>
    /\ UNCHANGED svars

\* The value of `return im`, with the arguments and detail level of the call.
Returned ==
    [w |-> canvases[im].w, h |-> canvases[im].h, ops |-> canvases[im].ops,
     call |-> [size |-> size, ring |-> ring, outline_px |-> outline_px, eyes |-> eyes]]

(***************************************************************************)
(* The output directory OUT and the files the script writes into it.       *)
(***************************************************************************)
NoCall  == [size |-> 0, ring |-> FALSE, outline_px |-> 0, eyes |-> FALSE]
NoImage == [w |-> 0, h |-> 0, ops |-> <<>>, call |-> NoCall]

PngFile(img)       == [kind |-> "png", img |-> img, frames |-> <<>>, icons |-> <<>>, text |-> ""]
IcoFile(frames)    == [kind |-> "ico", img |-> NoImage, frames |-> frames, icons |-> <<>>, text |-> ""]
TextFile(text)     == [kind |-> "text", img |-> NoImage, frames |-> <<>>, icons |-> <<>>, text |-> text]
ManifestFile(icns) == [kind |-> "json", img |-> NoImage, frames |-> <<>>, icons |-> icns,
                       text |-> "Mushroom Lab"]

Write(f, name, c) == [n \in DOMAIN f \cup {name} |-> IF n = name THEN c ELSE f[n]]

OutDir == <<"assets", "favicon">>
Base(path) == path[Len(path)]
Dir(path)  == SubSeq(path, 1, Len(path) - 1)

Sizes == <<16, 24, 32, 48, 64, 128, 192, 256, 512>>
\* Variant: the ring starting above 64 instead of at 64.
RingForMut(n) == n > 64
RingFor(n) == n >= 64

\* f"icon-{n}.png"
IconName(n) ==
    CASE n = 16  -> "icon-16.png"
      [] n = 24  -> "icon-24.png"
      [] n = 32  -> "icon-32.png"
      [] n = 48  -> "icon-48.png"
      [] n = 64  -> "icon-64.png"
      [] n = 128 -> "icon-128.png"
      [] n = 192 -> "icon-192.png"
      [] n = 256 -> "icon-256.png"
      [] n = 512 -> "icon-512.png"
      [] OTHER   -> "icon-other.png"

\* Variant: the ICO bundle built before the PNGs are rendered.
ScriptMut ==
    <<"ico", "icons", "copy16", "copy32", "copy192", "copy512",
      "apple", "svg", "pinned", "manifest">>

\* The statements of the script after the directory is made, in source order.
Script ==
    <<"icons", "copy16", "copy32", "copy192", "copy512", "ico",
      "apple", "svg", "pinned", "manifest">>

\* Variant: the bundle built from the 32px icon.
IcoSourceMut == "icon-32.png"
IcoSource == "icon-64.png"
IcoSizes  == <<16, 24, 32, 48, 64>>

\* Image.thumbnail: a no-op when the image already has the requested size.
Thumbnail(img, k) ==
    IF img.w = k /\ img.h = k THEN img
    ELSE [img EXCEPT !.w = k, !.h = k,
                     !.ops = Append(@, Prim("resize", "", "", FALSE, k, FALSE))]

\* save(format="ICO", sizes=...): requested sizes larger than the image or
\* than 256 px are skipped; every kept size is a thumbnail of the image.
IcoSave(img, sizes) ==
    LET keep(k) == ~(k > img.w \/ k > img.h \/ k > 256)
        kept    == SelectSeq(sizes, keep)
    IN  [j \in 1..Len(kept) |-> Thumbnail(img, kept[j])]

AppleSize == 180

\* int(n * 0.70) in IEEE double arithmetic: the product falls just below the
\* integer 7n/10 for these n (up to 512), elsewhere it is floor(7n/10).
Int070(n) ==
    IF n \in {90, 170, 180, 330, 340, 350, 360}
    THEN (7 * n) \div 10 - 1
    ELSE (7 * n) \div 10

\* apple_icon(size): card, vignette, the glyph composited at (15%, 15%), and
\* the rounded-corner alpha mask.
AppleOut(n, g) ==
    LET lifted == <<Prim("new", "card", "CARD", TRUE, 0, TRUE),
                    Prim("composite_mask", "vignette", "CARD", TRUE, (12 * n) \div 100, TRUE)>>
    IN  [w |-> n, h |-> n,
         ops |-> <<Prim("new", "card", "CARD", TRUE, 0, TRUE),
                   Composite(lifted),
                   [Composite(g.ops) EXCEPT !.width = (15 * n) \div 100],
                   Prim("putalpha", "corners", "", FALSE, (22 * n) \div 100, TRUE)>>,
         call |-> NoCall]

ManifestIcons ==
    <<[src |-> OutDir \o <<"android-chrome-192x192.png">>, sizes |-> "192x192", type |-> "image/png"],
      [src |-> OutDir \o <<"android-chrome-512x512.png">>, sizes |-> "512x512", type |-> "image/png"]>>

Done == pc = Len(Script) + 1
At(stmt) == ~aborted /\ pc \in 1..Len(Script) /\ Script[pc] = stmt

CallRender(n, r) ==
    /\ size' = n
    /\ ring' = r
    /\ rpc' = "new"
    /\ canvases' = <<>>
    /\ im' = 0 /\ d' = 0 /\ sh' = 0 /\ ds' = 0
    /\ outline_px' = 0 /\ eyes' = FALSE

Save(name, c) ==
    /\ fs' = Write(fs, name, c)
    /\ log' = Append(log, name)

\* for n in [...]: img = render_icon(n, ring=(n>=64))
IconsCall ==
    /\ At("icons") /\ rpc = "idle"
    /\ CallRender(Sizes[i], RingFor(Sizes[i]))
    /\ UNCHANGED svars

\* img.save(OUT/f"icon-{n}.png"), and the next iteration
IconsSave ==
    /\ At("icons") /\ rpc = "ret"
    /\ Save(IconName(Sizes[i]), PngFile(Returned))
    /\ rpc' = "idle"
    /\ IF i < Len(Sizes)
       THEN i' = i + 1 /\ pc' = pc
       ELSE i' = 1 /\ pc' = pc + 1
    /\ UNCHANGED <<run, dir0, aborted>>
    /\ UNCHANGED <<size, ring, canvases, im, d, sh, ds, outline_px, eyes>>

\* Image.open(OUT/src).save(OUT/dst); a missing file raises and ends the run.
CopyStep(stmt, src, dst) ==
    /\ At(stmt) /\ rpc = "idle"
    /\ IF src \in DOMAIN fs
       THEN /\ Save(dst, PngFile(fs[src].img))
            /\ pc' = pc + 1
            /\ UNCHANGED aborted
       ELSE /\ aborted' = TRUE
            /\ UNCHANGED <<fs, log, pc>>
    /\ UNCHANGED <<i, run, dir0>>
    /\ UNCHANGED rvars

Copy16  == CopyStep("copy16", "icon-16.png", "favicon-16x16.png")
Copy32  == CopyStep("copy32", "icon-32.png", "favicon-32x32.png")
\* Variant: the 192px copy saved under another name.
Copy192Mut == CopyStep("copy192", "icon-192.png", "android-chrome-192.png")
Copy192 == CopyStep("copy192", "icon-192.png", "android-chrome-192x192.png")
Copy512 == CopyStep("copy512", "icon-512.png", "android-chrome-512x512.png")

Ico ==
    /\ At("ico") /\ rpc = "idle"
    /\ IF IcoSource \in DOMAIN fs
       THEN /\ Save("favicon.ico", IcoFile(IcoSave(fs[IcoSource].img, IcoSizes)))
            /\ pc' = pc + 1
            /\ UNCHANGED aborted
       ELSE /\ aborted' = TRUE
            /\ UNCHANGED <<fs, log, pc>>
    /\ UNCHANGED <<i, run, dir0>>
    /\ UNCHANGED rvars

\* g = render_icon(int(size*0.70), ring=True) inside apple_icon(180)
AppleCall ==
    /\ At("apple") /\ rpc = "idle"
    /\ CallRender(Int070(AppleSize), TRUE)
    /\ UNCHANGED svars

AppleSave ==
    /\ At("apple") /\ rpc = "ret"
    /\ Save("apple-touch-icon.png", PngFile(AppleOut(AppleSize, Returned)))
    /\ rpc' = "idle"
    /\ pc' = pc + 1
    /\ UNCHANGED <<i, run, dir0, aborted>>
    /\ UNCHANGED <<size, ring, canvases, im, d, sh, ds, outline_px, eyes>>

WriteText(stmt, name, c) ==
    /\ At(stmt) /\ rpc = "idle"
    /\ Save(name, c)
    /\ pc' = pc + 1
    /\ UNCHANGED <<i, run, dir0, aborted>>
    /\ UNCHANGED rvars

Svg      == WriteText("svg", "favicon.svg", TextFile("svg ring cap stem"))
\* Variant: the pinned-tab markup written over favicon.svg.
PinnedMut == WriteText("pinned", "favicon.svg", TextFile("svg cap stem mono"))
Pinned   == WriteText("pinned", "safari-pinned-tab.svg", TextFile("svg cap stem mono"))
Manifest == WriteText("manifest", "site.webmanifest", ManifestFile(ManifestIcons))

\* The tool is run again on the directory the previous run left.
Rerun ==
    /\ Done /\ ~aborted /\ run < MaxRuns
    /\ pc' = 1 /\ i' = 1 /\ log' = <<>> /\ run' = run + 1
    /\ UNCHANGED <<fs, dir0, aborted>>
    /\ UNCHANGED rvars

\* A directory left by an earlier version of the tool: a logo it no longer
\* writes and a plain 64px icon.
StaleDir ==
    [n \in {"old-logo.png", "icon-64.png"} |->
        PngFile([w |-> 64, h |-> 64, ops |-> <<>>, call |-> NoCall])]
EmptyDir == [n \in {} |-> TextFile("")]

RenderIdle ==
    /\ rpc = "idle" /\ size = 0 /\ ring = FALSE /\ canvases = <<>>
    /\ im = 0 /\ d = 0 /\ sh = 0 /\ ds = 0 /\ outline_px = 0 /\ eyes = FALSE

Init ==
    /\ pc = 1 /\ i = 1 /\ log = <<>> /\ run = 1 /\ aborted = FALSE
    /\ fs \in {EmptyDir, StaleDir}
    /\ dir0 = DOMAIN fs
    /\ RenderIdle

RenderNext == RNew \/ RRing \/ RShadow \/ RDetail \/ RGlyph

Next ==
    \/ IconsCall \/ IconsSave
    \/ Copy16 \/ Copy32 \/ Copy192 \/ Copy512
    \/ Ico
    \/ AppleCall \/ AppleSave
    \/ Svg \/ Pinned \/ Manifest
    \/ Rerun
    \/ RenderNext

Spec == Init /\ [][Next]_vars

(***************************************************************************)
(* render_icon as a function of its arguments: any size up to MaxSize, the *)
(* sizes the script renders, and either value of ring.                     *)
(***************************************************************************)
SupportedSizes == {Sizes[k] : k \in 1..Len(Sizes)} \cup {126, Int070(AppleSize)}
RenderSizes    == (1..MaxSize) \cup SupportedSizes

RenderInit ==
    /\ pc = 0 /\ i = 1 /\ log = <<>> /\ run = 1 /\ aborted = FALSE
    /\ fs = EmptyDir /\ dir0 = {}
    /\ size \in RenderSizes
    /\ ring \in BOOLEAN
    /\ rpc = "new" /\ canvases = <<>>
    /\ im = 0 /\ d = 0 /\ sh = 0 /\ ds = 0 /\ outline_px = 0 /\ eyes = FALSE

RenderSpec == RenderInit /\ [][RenderNext]_vars

(***************************************************************************)
(* Observations of an image through its display list.                      *)
(***************************************************************************)
IsEye(o)  == o.part = "eye" /\ o.colour = "EYES" /\ o.fill
IsRing(o) == o.part = "ring" /\ o.colour = "RINGC"
IsFill(o, part) == o.part = part /\ o.colour = "FG" /\ o.fill

\* Eye-coloured pixels: an eye drawn on the image or on a layer composited
\* onto it.
EyePixels(ops) ==
    \E k \in 1..Len(ops) :
        \/ IsEye(ops[k])
        \/ \E j \in 1..Len(ops[k].layer) : IsEye(ops[k].layer[j])

RingPixels(ops) == \E k \in 1..Len(ops) : IsRing(ops[k])

\* The glyph itself (cap and stem fills) drawn on the image, not a shadow
\* of it.
GlyphDrawn(ops) ==
    /\ \E k \in 1..Len(ops) : IsFill(ops[k], "cap")
    /\ \E k \in 1..Len(ops) : IsFill(ops[k], "stem")

IsShadow(o) ==
    /\ o.kind = "composite"
    /\ \E j \in 1..Len(o.layer) : IsFill(o.layer[j], "cap")
    /\ \E j \in 1..Len(o.layer) : o.layer[j].kind = "eval"

\* Alpha of the centre pixel after the display list ops, starting from a.
\* A draw replaces the pixel, Image.eval scales it by 0.22 and truncates,
\* alpha_composite is "over"; a blur leaves the centre of the silhouette
\* covered.
RECURSIVE AlphaAt(_, _)
AlphaAt(ops, a) ==
    IF Len(ops) = 0 THEN a
    ELSE LET o  == Head(ops)
             a2 == CASE o.kind \in {"ellipse", "rounded_rectangle", "new"} /\ o.centre
                          -> Alpha(o.colour)
                      [] o.kind = "eval" -> (22 * a) \div 100
                      [] o.kind = "composite"
                          -> LET sa == AlphaAt(o.layer, 0)
                             IN  sa + (a * (255 - sa)) \div 255
                      [] OTHER -> a
         IN  AlphaAt(Tail(ops), a2)

CentreAlpha(ops) == AlphaAt(ops, 0)

\* The widths of the outline strokes and the presence of eyes in the pass
\* drawn through the handle d.
OutlineWidths(ops) ==
    {ops[k].width : k \in {j \in 1..Len(ops) : ops[j].colour = "OUTL"}}

Returning == rpc = "ret"

(***************************************************************************)
(* C1 (as stated): sizes <= 24 get a 1px outline and no eyes, 25-32 a 2px  *)
(* outline and no eyes, 33-47 a 1px outline and no eyes, >= 48 no outline  *)
(* and eyes.                                                               *)
(***************************************************************************)
DetailIs(o, e) ==
    /\ outline_px = o
    /\ eyes = e
    /\ OutlineWidths(canvases[d].ops) = (IF o = 0 THEN {} ELSE {o})
    /\ EyePixels(canvases[d].ops) = e

C1_ThresholdsAsStated ==
    Returning =>
        /\ size <= 24 => DetailIs(1, FALSE)
        /\ (25 <= size /\ size <= 32) => DetailIs(2, FALSE)
        /\ (33 <= size /\ size <= 47) => DetailIs(1, FALSE)
        /\ size >= 48 => DetailIs(0, TRUE)

(***************************************************************************)
(* C1 (amended): sizes <= 23 get a 1px outline and no eyes, 24-32 a 2px    *)
(* outline and no eyes, 33-47 a 1px outline and no eyes, >= 48 no outline  *)
(* and eyes.                                                               *)
(***************************************************************************)
C1_Thresholds ==
    Returning =>
        /\ size <= 23 => DetailIs(1, FALSE)
        /\ (24 <= size /\ size <= 32) => DetailIs(2, FALSE)
        /\ (33 <= size /\ size <= 47) => DetailIs(1, FALSE)
        /\ size >= 48 => DetailIs(0, TRUE)

C1_Witness == Returning /\ size = 24 /\ outline_px = 2 /\ ~eyes

(***************************************************************************)
(* C2: for every size >= 48 rendered with ring=True, the returned image    *)
(* contains both the ring and the eye-coloured pixels of the glyph.        *)
(***************************************************************************)
C2_RingAndEyes ==
    (Returning /\ ring /\ size >= 48) =>
        /\ RingPixels(Returned.ops)
        /\ EyePixels(Returned.ops)

(***************************************************************************)
(* C3: for every supported size and either value of ring, the returned     *)
(* image is size x size, its centre pixel is not fully transparent, and    *)
(* the glyph is drawn on it.                                               *)
(***************************************************************************)
C3_SizeCentreGlyph ==
    (Returning /\ size \in SupportedSizes) =>
        /\ Returned.w = size /\ Returned.h = size
        /\ CentreAlpha(Returned.ops) > 0
        /\ GlyphDrawn(Returned.ops)

(***************************************************************************)
(* C4: for every size <= 47 and either value of ring, neither the shadow   *)
(* pass nor the main pass draws the eyes on any canvas, and the returned   *)
(* image has no eye pixels.                                                *)
(***************************************************************************)
C4_NoEyesBelow48 ==
    size <= 47 =>
        /\ \A c \in 1..Len(canvases) : ~EyePixels(canvases[c].ops)
        /\ Returning => ~EyePixels(Returned.ops) /\ ~eyes

C4_Witness == Returning /\ size = 47 /\ ring /\ Len(canvases) = 5

(***************************************************************************)
(* C9: for either value of ring, the ring stroke, the shadow composite and *)
(* the main glyph all land on the canvas that is returned, in that order,  *)
(* so the shadow lies under the glyph; the draw handle never writes to a   *)
(* canvas that is discarded.                                               *)
(***************************************************************************)
C9_WritesOnReturned ==
    Returning =>
        LET ops == Returned.ops
        IN  /\ d = im
            /\ ring => RingPixels(ops)
            /\ \E s \in 1..Len(ops) :
                  /\ IsShadow(ops[s])
                  /\ \A k \in 1..Len(ops) : IsRing(ops[k]) => k < s
                  /\ \E k \in 1..Len(ops) : IsFill(ops[k], "cap") /\ s < k
                  /\ \E k \in 1..Len(ops) : IsFill(ops[k], "stem") /\ s < k

(***************************************************************************)
(* The files of one run.                                                   *)
(***************************************************************************)
Written == {log[k] : k \in 1..Len(log)}

\* name was written in this run, after src was written in this run.
WrittenAfter(name, src) ==
    \A k \in 1..Len(log) : log[k] = name => \E j \in 1..(k - 1) : log[j] = src

(***************************************************************************)
(* C5: in every run, each derived file (the four renamed PNGs and the ICO) *)
(* is produced only after the icon-N.png it is read from has been rendered *)
(* and saved in that run, and a renamed PNG holds the image of its source. *)
(***************************************************************************)
C5_DerivedAfterSource ==
    /\ WrittenAfter("favicon-16x16.png", "icon-16.png")
    /\ WrittenAfter("favicon-32x32.png", "icon-32.png")
    /\ WrittenAfter("android-chrome-192x192.png", "icon-192.png")
    /\ WrittenAfter("android-chrome-512x512.png", "icon-512.png")
    /\ WrittenAfter("favicon.ico", "icon-64.png")
    /\ "favicon-16x16.png" \in Written =>
          fs["favicon-16x16.png"].img = fs["icon-16.png"].img
    /\ "favicon-32x32.png" \in Written =>
          fs["favicon-32x32.png"].img = fs["icon-32.png"].img
    /\ "android-chrome-192x192.png" \in Written =>
          fs["android-chrome-192x192.png"].img = fs["icon-192.png"].img
    /\ "android-chrome-512x512.png" \in Written =>
          fs["android-chrome-512x512.png"].img = fs["icon-512.png"].img

C5_Witness ==
    /\ Done
    /\ {"favicon-16x16.png", "favicon-32x32.png", "android-chrome-192x192.png",
        "android-chrome-512x512.png", "favicon.ico"} \subseteq Written
    /\ "icon-64.png" \in dir0

(***************************************************************************)
(* C6: the generated favicon.ico contains exactly the five resolutions 16, *)
(* 24, 32, 48 and 64 px: none is dropped, no other is present.             *)
(***************************************************************************)
C6_IcoResolutions ==
    "favicon.ico" \in Written =>
        LET fr == fs["favicon.ico"].frames
        IN  /\ Len(fr) = 5
            /\ {fr[j].w : j \in 1..Len(fr)} = {16, 24, 32, 48, 64}
            /\ \A j \in 1..Len(fr) : fr[j].h = fr[j].w

C6_Witness ==
    /\ "favicon.ico" \in Written
    /\ fs["favicon.ico"].kind = "ico"
    /\ \E j \in 1..Len(fs["favicon.ico"].frames) : fs["favicon.ico"].frames[j].w = 64

(***************************************************************************)
(* C7: after a completed run, site.webmanifest has exactly two icon        *)
(* entries (192x192 and 512x512, image/png), each naming a file that the   *)
(* same run wrote into the output directory, next to the manifest.         *)
(***************************************************************************)
C7_ManifestIcons ==
    (Done /\ ~aborted) =>
        /\ "site.webmanifest" \in Written
        /\ LET ic == fs["site.webmanifest"].icons
           IN  /\ Len(ic) = 2
               /\ ic[1].sizes = "192x192" /\ ic[2].sizes = "512x512"
               /\ Base(ic[1].src) = "android-chrome-192x192.png"
               /\ Base(ic[2].src) = "android-chrome-512x512.png"
               /\ \A k \in 1..Len(ic) :
                     /\ ic[k].type = "image/png"
                     /\ Dir(ic[k].src) = OutDir
                     /\ Base(ic[k].src) \in Written
                     /\ Base(ic[k].src) \in DOMAIN fs
                     /\ fs[Base(ic[k].src)].kind = "png"

C7_Witness == Done /\ ~aborted /\ "site.webmanifest" \in Written /\ run = 1

(***************************************************************************)
(* C8: a run on an empty output directory leaves exactly the fixed set of  *)
(* 18 file names, and a second run leaves the same set.                    *)
(***************************************************************************)
ExpectedNames ==
    {"icon-16.png", "icon-24.png", "icon-32.png", "icon-48.png", "icon-64.png",
     "icon-128.png", "icon-192.png", "icon-256.png", "icon-512.png",
     "favicon-16x16.png", "favicon-32x32.png",
     "android-chrome-192x192.png", "android-chrome-512x512.png",
     "favicon.ico", "apple-touch-icon.png",
     "favicon.svg", "safari-pinned-tab.svg", "site.webmanifest"}

C8_FixedFileSet ==
    (Done /\ dir0 = {}) =>
        /\ DOMAIN fs = ExpectedNames
        /\ Cardinality(DOMAIN fs) = 18
        /\ Written = ExpectedNames

C8_Witness == Done /\ dir0 = {} /\ run = 2 /\ Len(log) = 18

(***************************************************************************)
(* C10 (as stated): every frame of favicon.ico is derived from the         *)
(* icon-64.png saved in the same run, which was rendered with ring=True,   *)
(* no outline and eyes enabled; no 16, 24, 32 or 48 px frame is the        *)
(* size-specific rendering of that size, and each of those four            *)
(* renderings has the small-size outline and the eyes suppressed.          *)
(***************************************************************************)
FramesFromIcon64 ==
    LET fr  == fs["favicon.ico"].frames
        src == fs["icon-64.png"].img
    IN  /\ "icon-64.png" \in Written
        /\ src.call = [size |-> 64, ring |-> TRUE, outline_px |-> 0, eyes |-> TRUE]
        /\ src.w = 64 /\ src.h = 64
        /\ \A j \in 1..Len(fr) :
              /\ fr[j].call = src.call
              /\ fr[j] = Thumbnail(src, fr[j].w)
              /\ \A n \in {16, 24, 32, 48} :
                    fr[j].w = n =>
                       /\ IconName(n) \in Written
                       /\ fr[j] # fs[IconName(n)].img

SizeSpecific(n) == fs[IconName(n)].img.call

C10_IcoFromIcon64AsStated ==
    "favicon.ico" \in Written =>
        /\ FramesFromIcon64
        /\ \A n \in {16, 24, 32, 48} :
              /\ SizeSpecific(n).size = n
              /\ ~SizeSpecific(n).ring
              /\ SizeSpecific(n).outline_px > 0
              /\ ~SizeSpecific(n).eyes

(***************************************************************************)
(* C10 (amended): every frame of favicon.ico is derived from the           *)
(* icon-64.png saved in the same run, which was rendered with ring=True,   *)
(* no outline and eyes enabled; no 16, 24, 32 or 48 px frame is the        *)
(* size-specific rendering (ring=False) of that size, which has the        *)
(* small-size outline and suppressed eyes for 16, 24 and 32, and no        *)
(* outline and eyes enabled for 48.                                        *)
(***************************************************************************)
C10_IcoFromIcon64 ==
    "favicon.ico" \in Written =>
        /\ FramesFromIcon64
        /\ \A n \in {16, 24, 32, 48} :
              /\ SizeSpecific(n).size = n
              /\ ~SizeSpecific(n).ring
        /\ \A n \in {16, 24, 32} :
              SizeSpecific(n).outline_px > 0 /\ ~SizeSpecific(n).eyes
        /\ SizeSpecific(48).outline_px = 0 /\ SizeSpecific(48).eyes

C10_Witness ==
    /\ "favicon.ico" \in Written
    /\ Len(fs["favicon.ico"].frames) = 5
    /\ fs["favicon.ico"].frames[1].w = 16
    /\ fs["favicon.ico"].frames[1].call.size = 64

====
